---- MODULE Spec2Model ----
(***************************************************************************)
(* Model of the two notebooks of the repository.                           *)
(*                                                                         *)
(* Procedure A (ConditionalProbabilityExercise, src/unnamed/part_000):     *)
(* the generation loop of lines 26-35, one action per statement, followed  *)
(* by the statistics cells of lines 57-106.                                *)
(*                                                                         *)
(* Procedure B (src/CovarianceCorrelation.py): de_mean, covariance and      *)
(* correlation as operators, applied by one action per notebook cell.      *)
(*                                                                         *)
(* Numbers: the notebooks compute in IEEE doubles.  The model computes the *)
(* exact value of every expression: a quotient is a normalised fraction    *)
(* (Rat), a square root is kept as its sign and its square (Surd).         *)
(* Rounding is therefore not modelled; the statements below are about the  *)
(* exact values, which the doubles approximate.                            *)
(***************************************************************************)
EXTENDS Integers, Sequences, FiniteSets, TLC

VARIABLES
    \* Procedure A
    pc,                  \* the statement about to run ("L29" .. "L106", "done", "ZeroDivisionError")
    i,                   \* number of iterations of `for _ in range(N)` started so far
    totals,              \* dict label -> number of people
    purchases,           \* dict label -> number of purchases
    totalPurchases,      \* int
    ageDecade,           \* the label drawn in the current iteration
    purchaseProbability, \* float(ageDecade) / 100.0
    PEF, PF, PE,         \* the statistics of lines 57, 66, 75
    joint, product, check, \* the values printed at lines 88, 96, 106
    atStart,             \* history: totals, purchases, totalPurchases when the iteration began
    \* Procedure B
    pageSpeeds,          \* sequence of numbers
    purchaseAmount,      \* sequence of numbers, same length
    cell,                \* the cell about to run, by the line that displays its value
    covarianceOut,       \* the value the last covariance(...) call returned
    correlationOut       \* the value the last correlation(...) call returned

varsA == <<pc, i, totals, purchases, totalPurchases, ageDecade,
           purchaseProbability, PEF, PF, PE, joint, product, check, atStart>>
varsB == <<pageSpeeds, purchaseAmount, cell,
           covarianceOut, correlationOut>>
vars == <<varsA, varsB>>

----------------------------------------------------------------------------
(* Bounds *)

\* population size: range(100000) and the divisor 100000.0 of the notebook
N == 6

\* longest sample of Procedure B (1000 in the notebook)
MaxLen == 3

\* the numbers a sample of Procedure B is drawn from
Values == {-1, 0, 2}

\* scale factors and offsets of the affine transforms tried on a sample
Scales == {-2, -1, 1, 3}
Offsets == {-1, 0, 2}

----------------------------------------------------------------------------
(* Exact arithmetic *)

Abs(a) == IF a < 0 THEN -a ELSE a

Sign(a) == IF a < 0 THEN -1 ELSE IF a = 0 THEN 0 ELSE 1

RECURSIVE GCD(_, _)
GCD(a, b) == IF b = 0 THEN a ELSE GCD(b, a % b)

\* what a float division 0.0/0 of numpy scalars yields
NaN == [num |-> 0, den |-> 0]

IsNaN(r) == r.den = 0

\* the fraction n/d in lowest terms with a positive denominator (d # 0)
Rat(n, d) ==
    LET g == GCD(Abs(n), Abs(d))
        s == IF d < 0 THEN -1 ELSE 1
    IN  [num |-> (s * n) \div g, den |-> (s * d) \div g]

FromInt(n) == [num |-> n, den |-> 1]

RatAdd(a, b) ==
    IF IsNaN(a) \/ IsNaN(b) THEN NaN
    ELSE Rat(a.num * b.den + b.num * a.den, a.den * b.den)

RatSub(a, b) ==
    IF IsNaN(a) \/ IsNaN(b) THEN NaN
    ELSE Rat(a.num * b.den - b.num * a.den, a.den * b.den)

RatMul(a, b) ==
    IF IsNaN(a) \/ IsNaN(b) THEN NaN
    ELSE Rat(a.num * b.num, a.den * b.den)

\* numpy scalar division: 0/0 is nan (x/0 with x # 0 does not arise here)
RatDiv(a, b) ==
    IF IsNaN(a) \/ IsNaN(b) \/ b.num = 0 THEN NaN
    ELSE Rat(a.num * b.den, a.den * b.num)

RatLess(a, b) == a.num * b.den < b.num * a.den

RatLeq(a, b) == a.num * b.den <= b.num * a.den

\* A real number of the form sign * sqrt(sq), sq a non-negative fraction.
Surd(r) == [sign |-> Sign(r.num), sq |-> RatMul(r, r)]

SurdNaN == [sign |-> 0, sq |-> NaN]

\* sqrt(r) for r >= 0
Sqrt(r) == IF IsNaN(r) THEN SurdNaN ELSE [sign |-> Sign(r.num), sq |-> r]

SurdDiv(u, v) ==
    IF IsNaN(u.sq) \/ IsNaN(v.sq) \/ v.sign = 0 THEN SurdNaN
    ELSE [sign |-> u.sign * v.sign, sq |-> RatDiv(u.sq, v.sq)]

SurdNeg(u) == [sign |-> -u.sign, sq |-> u.sq]

----------------------------------------------------------------------------
(* Procedure A: the generation loop *)

\* the keys of totals and purchases, and the list random.choice draws from
Labels == {20, 30, 40, 50, 60, 70}

\* the values random.random() can return, in [0, 1)
RandomValues == {Rat(k, 100) : k \in {0, 20, 30, 40, 50, 60, 70, 99}}

RECURSIVE SumOver(_, _)
SumOver(f, S) ==
    IF S = {} THEN 0
    ELSE LET k == CHOOSE k \in S : TRUE IN f[k] + SumOver(f, S \ {k})

None == [num |-> 0, den |-> 0]

InitA ==
    /\ pc = "L29"
    /\ i = 0
    /\ totals = [L \in Labels |-> 0]
    /\ purchases = [L \in Labels |-> 0]
    /\ totalPurchases = 0
    /\ ageDecade = 0
    /\ purchaseProbability = None
    /\ PEF = None /\ PF = None /\ PE = None
    /\ joint = None /\ product = None /\ check = None
    /\ atStart = [totals |-> totals, purchases |-> purchases,
                  totalPurchases |-> totalPurchases]

\* for _ in range(N):
L29 ==
    /\ pc = "L29"
    /\ IF i < N
       THEN /\ i' = i + 1
            /\ pc' = "L30"
            /\ atStart' = [totals |-> totals, purchases |-> purchases,
                           totalPurchases |-> totalPurchases]
       ELSE /\ i' = i
            /\ pc' = "L57"
            /\ atStart' = atStart
    /\ UNCHANGED <<totals, purchases, totalPurchases, ageDecade,
                   purchaseProbability, PEF, PF, PE, joint, product, check>>
    /\ UNCHANGED varsB

\* ageDecade = random.choice([20, 30, 40, 50, 60, 70])
L30 ==
    /\ pc = "L30"
    /\ \E L \in Labels : ageDecade' = L
    /\ pc' = "L31"
    /\ UNCHANGED <<i, totals, purchases, totalPurchases,
                   purchaseProbability, PEF, PF, PE, joint, product, check, atStart>>
    /\ UNCHANGED varsB

\* purchaseProbability = float(ageDecade) / 100.0
L31 ==
    /\ pc = "L31"
    /\ purchaseProbability' = Rat(ageDecade, 100)
    /\ pc' = "L32"
    /\ UNCHANGED <<i, totals, purchases, totalPurchases, ageDecade,
                   PEF, PF, PE, joint, product, check, atStart>>
    /\ UNCHANGED varsB

\* Mutants of IncTotals: the update is lost; the update goes to a fixed key.
IncTotalsDropped(t, L) == t

IncTotalsOtherKey(t, L) == [t EXCEPT ![20] = @ + 1]

\* totals[ageDecade] += 1
IncTotals(t, L) == [t EXCEPT ![L] = @ + 1]

L32 ==
    /\ pc = "L32"
    /\ totals' = IncTotals(totals, ageDecade)
    /\ pc' = "L33"
    /\ UNCHANGED <<i, purchases, totalPurchases, ageDecade,
                   purchaseProbability, PEF, PF, PE, joint, product, check, atStart>>
    /\ UNCHANGED varsB

\* if (random.random() < purchaseProbability):
L33 ==
    /\ pc = "L33"
    /\ \E r \in RandomValues :
         pc' = IF RatLess(r, purchaseProbability) THEN "L34" ELSE "L29"
    /\ UNCHANGED <<i, totals, purchases, totalPurchases, ageDecade,
                   purchaseProbability, PEF, PF, PE, joint, product, check, atStart>>
    /\ UNCHANGED varsB

\* totalPurchases += 1
L34 ==
    /\ pc = "L34"
    /\ totalPurchases' = totalPurchases + 1
    /\ pc' = "L35"
    /\ UNCHANGED <<i, totals, purchases, ageDecade,
                   purchaseProbability, PEF, PF, PE, joint, product, check, atStart>>
    /\ UNCHANGED varsB

\* Mutants of IncPurchases: the purchase is counted twice; it is counted
\* under a fixed key.
IncPurchasesTwice(p, L) == [p EXCEPT ![L] = @ + 2]

IncPurchasesOtherKey(p, L) == [p EXCEPT ![30] = @ + 1]

\* purchases[ageDecade] += 1
IncPurchases(p, L) == [p EXCEPT ![L] = @ + 1]

L35 ==
    /\ pc = "L35"
    /\ purchases' = IncPurchases(purchases, ageDecade)
    /\ pc' = "L29"
    /\ UNCHANGED <<i, totals, totalPurchases, ageDecade,
                   purchaseProbability, PEF, PF, PE, joint, product, check, atStart>>
    /\ UNCHANGED varsB

----------------------------------------------------------------------------
(* Procedure A: the statistics cells.  The notebook computes them for the  *)
(* label 30; the operators take the label as a parameter.                  *)

\* float(purchases[L]) / float(totals[L]), defined when totals[L] # 0
CondProb(p, t, L) == Rat(p[L], t[L])

\* float(totals[L]) / 100000.0
LabelProb(t, L) == Rat(t[L], N)

\* float(totalPurchases) / 100000.0
PurchaseProb(tp) == Rat(tp, N)

\* Mutant of JointProb: the joint probability taken within the label group.
JointProbWithinLabel(p, L) == Rat(p[L], IF totals[L] = 0 THEN 1 ELSE totals[L])

\* float(purchases[L]) / 100000.0
JointProb(p, L) == Rat(p[L], N)

\* Mutant of L57: a zero tally is guarded and yields 0.
L57Guarded ==
    /\ pc = "L57"
    /\ PEF' = IF totals[30] = 0 THEN FromInt(0) ELSE Rat(purchases[30], totals[30])
    /\ pc' = "L66"
    /\ UNCHANGED <<i, totals, purchases, totalPurchases, ageDecade,
                   purchaseProbability, PF, PE, joint, product, check, atStart>>
    /\ UNCHANGED varsB

\* PEF = float(purchases[30]) / float(totals[30]): Python float division
\* raises ZeroDivisionError on a zero divisor, and nothing catches it
L57 ==
    /\ pc = "L57"
    /\ IF totals[30] = 0
       THEN PEF' = PEF /\ pc' = "ZeroDivisionError"
       ELSE PEF' = CondProb(purchases, totals, 30) /\ pc' = "L66"
    /\ UNCHANGED <<i, totals, purchases, totalPurchases, ageDecade,
                   purchaseProbability, PF, PE, joint, product, check, atStart>>
    /\ UNCHANGED varsB

\* PF = float(totals[30]) / 100000.0
L66 ==
    /\ pc = "L66"
    /\ PF' = LabelProb(totals, 30)
    /\ pc' = "L75"
    /\ UNCHANGED <<i, totals, purchases, totalPurchases, ageDecade,
                   purchaseProbability, PEF, PE, joint, product, check, atStart>>
    /\ UNCHANGED varsB

\* PE = float(totalPurchases) / 100000.0
L75 ==
    /\ pc = "L75"
    /\ PE' = PurchaseProb(totalPurchases)
    /\ pc' = "L88"
    /\ UNCHANGED <<i, totals, purchases, totalPurchases, ageDecade,
                   purchaseProbability, PEF, PF, joint, product, check, atStart>>
    /\ UNCHANGED varsB

\* print(... float(purchases[30]) / 100000.0)
L88 ==
    /\ pc = "L88"
    /\ joint' = JointProb(purchases, 30)
    /\ pc' = "L96"
    /\ UNCHANGED <<i, totals, purchases, totalPurchases, ageDecade,
                   purchaseProbability, PEF, PF, PE, product, check, atStart>>
    /\ UNCHANGED varsB

\* print(... PE * PF)
L96 ==
    /\ pc = "L96"
    /\ product' = RatMul(PE, PF)
    /\ pc' = "L106"
    /\ UNCHANGED <<i, totals, purchases, totalPurchases, ageDecade,
                   purchaseProbability, PEF, PF, PE, joint, check, atStart>>
    /\ UNCHANGED varsB

\* (purchases[L] / 100000.0) / P(L): PF is not zero here, line 57 has passed
JointOverLabel(p, t, L) == RatDiv(JointProb(p, L), LabelProb(t, L))

\* print((purchases[30] / 100000.0) / PF)
L106 ==
    /\ pc = "L106"
    /\ check' = RatDiv(JointProb(purchases, 30), PF)
    /\ pc' = "done"
    /\ UNCHANGED <<i, totals, purchases, totalPurchases, ageDecade,
                   purchaseProbability, PEF, PF, PE, joint, product, atStart>>
    /\ UNCHANGED varsB

NextA ==
    \/ L29 \/ L30 \/ L31 \/ L32 \/ L33 \/ L34 \/ L35
    \/ L57 \/ L66 \/ L75 \/ L88 \/ L96 \/ L106

----------------------------------------------------------------------------
(* Procedure B: the functions *)

RECURSIVE SeqSum(_)
SeqSum(s) == IF s = <<>> THEN 0 ELSE Head(s) + SeqSum(Tail(s))

\* mean(x), pylab's arithmetic mean
mean(x) == Rat(SeqSum(x), Len(x))

\* Mutant of de_mean: the mean is not subtracted.
de_meanUncentred(x) == [k \in 1..Len(x) |-> FromInt(x[k])]

\* def de_mean(x): xmean = mean(x); return [xi - xmean for xi in x]
de_mean(x) == [k \in 1..Len(x) |-> RatSub(FromInt(x[k]), mean(x))]

\* dot(u, v), numpy's inner product of two equal-length vectors
RECURSIVE dot(_, _)
dot(u, v) ==
    IF u = <<>> THEN FromInt(0)
    ELSE RatAdd(RatMul(Head(u), Head(v)), dot(Tail(u), Tail(v)))

\* Mutant of covariance: the divisor is n, not n-1.
covarianceBiased(x, y) ==
    LET n == Len(x)
    IN  RatDiv(dot(de_mean(x), de_mean(y)), FromInt(n))

\* def covariance(x, y): n = len(x); return dot(de_mean(x), de_mean(y)) / (n-1)
covariance(x, y) ==
    LET n == Len(x)
    IN  RatDiv(dot(de_mean(x), de_mean(y)), FromInt(n - 1))

\* x.std(), numpy's standard deviation with its default ddof=0:
\* sqrt(mean(abs(x - x.mean())**2))
std(x) ==
    LET dev == [k \in 1..Len(x) |-> RatSub(FromInt(x[k]), mean(x))]
    IN  Sqrt(RatDiv(dot(dev, dev), FromInt(Len(x))))

\* def correlation(x, y): return covariance(x,y) / x.std() / y.std()
correlation(x, y) ==
    LET stddevx == std(x)
        stddevy == std(y)
    IN  SurdDiv(SurdDiv(Surd(covariance(x, y)), stddevx), stddevy)

\* purchaseAmount = 100 - pageSpeeds * 3
Linear(x) == [k \in 1..Len(x) |-> 100 - x[k] * 3]

----------------------------------------------------------------------------
(* Procedure B: the cells, run from top to bottom as the script runs.   *)
(* Each action is one cell, run whole.                                     *)

Samples(n) == [1..n -> Values]

\* after pageSpeeds and purchaseAmount have been drawn (lines 29-30)
InitB ==
    /\ \E n \in 1..MaxLen :
         /\ pageSpeeds \in Samples(n)
         /\ purchaseAmount \in Samples(n)
    /\ cell = "L34"
    /\ covarianceOut = NaN
    /\ correlationOut = SurdNaN

\* covariance (pageSpeeds, purchaseAmount)
L34Cell ==
    /\ cell = "L34"
    /\ covarianceOut' = covariance(pageSpeeds, purchaseAmount)
    /\ cell' = "L46"
    /\ UNCHANGED <<pageSpeeds, purchaseAmount, correlationOut>>
    /\ UNCHANGED varsA

\* purchaseAmount = np.random.normal(50.0, 10.0, 1000) / pageSpeeds
\* covariance (pageSpeeds, purchaseAmount)
L46Cell ==
    /\ cell = "L46"
    /\ \E y \in Samples(Len(pageSpeeds)) :
         /\ purchaseAmount' = y
         /\ covarianceOut' = covariance(pageSpeeds, y)
    /\ cell' = "L59"
    /\ UNCHANGED <<pageSpeeds, correlationOut>>
    /\ UNCHANGED varsA

\* def correlation(x, y): ...
\* correlation(pageSpeeds, purchaseAmount)
L59Cell ==
    /\ cell = "L59"
    /\ correlationOut' = correlation(pageSpeeds, purchaseAmount)
    /\ cell' = "L81"
    /\ UNCHANGED <<pageSpeeds, purchaseAmount, covarianceOut>>
    /\ UNCHANGED varsA

\* purchaseAmount = 100 - pageSpeeds * 3
\* correlation (pageSpeeds, purchaseAmount)
L81Cell ==
    /\ cell = "L81"
    /\ purchaseAmount' = Linear(pageSpeeds)
    /\ correlationOut' = correlation(pageSpeeds, Linear(pageSpeeds))
    /\ cell' = "done"
    /\ UNCHANGED <<pageSpeeds, covarianceOut>>
    /\ UNCHANGED varsA

NextB == L34Cell \/ L46Cell \/ L59Cell \/ L81Cell

----------------------------------------------------------------------------
(* Specifications *)

\* Procedure A runs; Procedure B's notebook is not started
StartA ==
    /\ InitA
    /\ pageSpeeds = <<>> /\ purchaseAmount = <<>>
    /\ cell = "L34"
    /\ covarianceOut = NaN /\ correlationOut = SurdNaN

\* Procedure B runs; Procedure A's notebook is not started
StartB ==
    /\ InitB
    /\ pc = "L29"
    /\ i = 0
    /\ totals = [L \in Labels |-> 0]
    /\ purchases = [L \in Labels |-> 0]
    /\ totalPurchases = 0
    /\ ageDecade = 0
    /\ purchaseProbability = None
    /\ PEF = None /\ PF = None /\ PE = None
    /\ joint = None /\ product = None /\ check = None
    /\ atStart = [totals |-> totals, purchases |-> purchases,
                  totalPurchases |-> totalPurchases]

SpecA == StartA /\ [][NextA]_vars

SpecB == StartB /\ [][NextB]_vars

----------------------------------------------------------------------------
(* Procedure A: properties *)

\* the statements after the loop, and the two ways the script ends
AfterLoop == {"L57", "L66", "L75", "L88", "L96", "L106", "done", "ZeroDivisionError"}

\* C3: the group tallies sum to the number of completed iterations at the
\* loop head, and to the population size N once the loop has finished.
TotalsSumToPopulation ==
    /\ pc = "L29" => SumOver(totals, Labels) = i
    /\ pc \in AfterLoop => SumOver(totals, Labels) = N

\* the loop has finished and at least two labels were drawn
TotalsSumToPopulationWitness ==
    /\ pc = "L57"
    /\ Cardinality({L \in Labels : totals[L] > 0}) >= 2

\* C4: the group purchase counts sum to totalPurchases after every completed
\* iteration and after the loop.
PurchasesSumToAggregate ==
    pc \in {"L29"} \cup AfterLoop => SumOver(purchases, Labels) = totalPurchases

\* the loop has finished with purchases under at least two labels
PurchasesSumToAggregateWitness ==
    /\ pc = "L57"
    /\ Cardinality({L \in Labels : purchases[L] > 0}) >= 2

\* C5: in every state, between the statements of an iteration too, every
\* label has 0 <= purchases[L] <= totals[L], and totals and purchases keep the
\* key set {20, 30, 40, 50, 60, 70}.
PurchasesWithinTotals ==
    /\ DOMAIN totals = {20, 30, 40, 50, 60, 70}
    /\ DOMAIN purchases = {20, 30, 40, 50, 60, 70}
    /\ \A L \in Labels : 0 <= purchases[L] /\ purchases[L] <= totals[L]

\* mid-iteration, about to count a purchase that brings the label's purchase
\* count up to its tally
PurchasesWithinTotalsWitness ==
    /\ pc = "L35"
    /\ totals[ageDecade] = purchases[ageDecade] + 1
    /\ purchases[ageDecade] > 0

\* C6: once the loop has finished, for every label L with totals[L] > 0 the
\* conditional probability purchases[L]/totals[L] equals the joint probability
\* purchases[L]/N divided by the label probability totals[L]/N, exactly; and
\* the value of line 106 equals PEF.
ConditionalIsJointOverLabel ==
    /\ pc \in AfterLoop =>
         \A L \in Labels :
           totals[L] > 0 =>
             CondProb(purchases, totals, L) = JointOverLabel(purchases, totals, L)
    /\ pc = "done" => check = PEF

\* the script has ended with a conditional probability strictly between 0 and 1
\* for a label that is not the whole population
ConditionalIsJointOverLabelWitness ==
    /\ pc = "done"
    /\ 0 < purchases[30] /\ purchases[30] < totals[30] /\ totals[30] < N
    /\ check = Rat(purchases[30], totals[30])

\* C9: the loop can end with totals[30] = 0; line 57 then divides by zero:
\* the script ends in ZeroDivisionError, PEF gets no value, and nothing runs
\* after it.
ZeroTallyFaults ==
    [][ /\ (pc = "L57" /\ totals[30] = 0) =>
             (pc' = "ZeroDivisionError" /\ PEF' = None)
        /\ pc # "ZeroDivisionError" ]_vars

\* the script has ended in ZeroDivisionError after a full loop that never drew 30
ZeroTallyFaultsWitness ==
    /\ pc = "ZeroDivisionError"
    /\ i = N
    /\ totals[30] = 0
    /\ SumOver(totals, Labels) = N

\* C10 as stated: every iteration mutates the tally mapping, the purchase
\* mapping and the aggregate exactly once each: at the end of an iteration
\* totals[ageDecade], purchases[ageDecade] and totalPurchases have each grown
\* by 1 and no other entry has changed.
IterationMutatesAllThree ==
    (pc = "L29" /\ i > 0) =>
      /\ \A L \in Labels :
           totals[L] = atStart.totals[L] + (IF L = ageDecade THEN 1 ELSE 0)
      /\ \A L \in Labels :
           purchases[L] = atStart.purchases[L] + (IF L = ageDecade THEN 1 ELSE 0)
      /\ totalPurchases = atStart.totalPurchases + 1

\* C10 as amended: every iteration grows totals[ageDecade] by exactly 1;
\* purchases[ageDecade] and totalPurchases grow together, by 1 when the
\* individual purchased and not at all otherwise; no other entry changes.
IterationEffect ==
    (pc = "L29" /\ i > 0) =>
      /\ \A L \in Labels :
           totals[L] = atStart.totals[L] + (IF L = ageDecade THEN 1 ELSE 0)
      /\ \E d \in {0, 1} :
           /\ totalPurchases = atStart.totalPurchases + d
           /\ \A L \in Labels :
                purchases[L] = atStart.purchases[L] + (IF L = ageDecade THEN d ELSE 0)

\* an iteration has completed without a purchase, after an earlier one with
IterationEffectWitness ==
    /\ pc = "L29" /\ i > 1
    /\ totalPurchases = atStart.totalPurchases
    /\ purchases = atStart.purchases
    /\ totalPurchases > 0

----------------------------------------------------------------------------
(* Procedure B: properties *)

NonConstant(x) == \E j, k \in 1..Len(x) : x[j] # x[k]

RECURSIVE SumSq(_)
SumSq(s) == IF s = <<>> THEN 0 ELSE Head(s) * Head(s) + SumSq(Tail(s))

\* the bias-corrected sample variance, (n * sum x^2 - (sum x)^2) / (n * (n-1))
SampleVariance(x) ==
    LET n == Len(x)
    IN  Rat(n * SumSq(x) - SeqSum(x) * SeqSum(x), n * (n - 1))

One == [sign |-> 1, sq |-> FromInt(1)]

MinusOne == [sign |-> -1, sq |-> FromInt(1)]

\* a * x + b, elementwise
Affine(a, b, x) == [k \in 1..Len(x) |-> a * x[k] + b]

\* c when a > 0, -c when a < 0
Signed(a, c) == IF a > 0 THEN c ELSE SurdNeg(c)

\* C1: correlation(x, x) is 1 for every non-constant x of length >= 2.
CorrelationOfSelfIsOne ==
    (/\ cell = "L81"
     /\ purchaseAmount = pageSpeeds
     /\ Len(pageSpeeds) >= 2
     /\ NonConstant(pageSpeeds)) => correlationOut = One

\* C2: for non-constant x and y of equal length >= 2, correlation(x, y) lies
\* in [-1, 1]; it is -1 for the perfect inverse linear relation y = 100 - 3x
\* and 1 for the perfect positive linear relation y = x.
CorrelationInUnitRange ==
    /\ (/\ cell \in {"L81", "done"}
        /\ Len(pageSpeeds) >= 2
        /\ NonConstant(pageSpeeds)
        /\ NonConstant(purchaseAmount)) => RatLeq(correlationOut.sq, FromInt(1))
    /\ (cell = "done" /\ NonConstant(pageSpeeds)) => correlationOut = MinusOne
    /\ (/\ cell = "L81"
        /\ NonConstant(pageSpeeds)
        /\ \E a \in {1, 3} : purchaseAmount = Affine(a, 0, pageSpeeds))
         => correlationOut = One

\* C7: covariance(x, x) is the bias-corrected sample variance of x, for every
\* x of length n >= 2.
CovarianceOfSelfIsSampleVariance ==
    (/\ cell \in {"L46", "L59", "L81"}
     /\ purchaseAmount = pageSpeeds
     /\ Len(pageSpeeds) >= 2) => covarianceOut = SampleVariance(pageSpeeds)

\* covariance has been applied to a non-constant sample of length 3 and itself
CovarianceOfSelfIsSampleVarianceWitness ==
    /\ cell = "L59"
    /\ purchaseAmount = pageSpeeds
    /\ Len(pageSpeeds) >= 3
    /\ NonConstant(pageSpeeds)
    /\ covarianceOut = SampleVariance(pageSpeeds)

\* C8: for non-constant x, y and a # 0, correlation(a*x + b, y) and
\* correlation(x, a*y + b) equal correlation(x, y) when a > 0 and
\* -correlation(x, y) when a < 0.
CorrelationAffine ==
    (/\ cell = "L81"
     /\ Len(pageSpeeds) >= 2
     /\ NonConstant(pageSpeeds)
     /\ NonConstant(purchaseAmount)) =>
       \A a \in Scales, b \in Offsets :
         /\ correlation(Affine(a, b, pageSpeeds), purchaseAmount)
              = Signed(a, correlationOut)
         /\ correlation(pageSpeeds, Affine(a, b, purchaseAmount))
              = Signed(a, correlationOut)

\* correlation has been applied to two non-constant samples of length 3 that
\* are correlated, but not perfectly
CorrelationAffineWitness ==
    /\ cell = "L81"
    /\ Len(pageSpeeds) >= 3
    /\ NonConstant(pageSpeeds)
    /\ NonConstant(purchaseAmount)
    /\ correlationOut.sign = -1
    /\ correlationOut.sq # RatMul(Rat(3, 2), Rat(3, 2))

====
